---- MODULE Spec2Model ----
(***************************************************************************)
(* Model of src/import_enhance.py: the importer of line-delimited message  *)
(* trees and messages.  One run of import_file opens a database session,   *)
(* feeds every line of the input file to handle_json_line and commits (or, *)
(* in a dry run, rolls back) at the end.                                   *)
(*                                                                         *)
(* The database is two tables (messages, message tree states) with a       *)
(* primary key each.  `store` is the committed content, `db` the content   *)
(* seen by the session of the running import.                              *)
(***************************************************************************)
EXTENDS Integers, Sequences, FiniteSets, TLC

\* ------------------------------------------------------------------ bounds
\* lines read by all the runs together
MaxLines == 3
\* largest activation quota (--num_activate) tried
MaxQuota == 1
\* largest --max_count tried
MaxCount == 1
\* ------------------------------------------------------------ Python values
\* Optional[T]: None is the empty tuple, a value x is <<x>>.
None == <<>>
Some(x) == <<x>>

\* Python truthiness of an Optional[int] (`if max_count`, `review_count or 0`).
TruthyInt(o) == o # None /\ o[1] # 0

\* Python truthiness of an Optional[str] (`lang or "en"`).
TruthyStr(o) == o # None /\ o[1] # ""

\* oasst_backend.models.message_tree_state.State, the values used here and one
\* of the others.
BACKLOG_RANKING == "backlog_ranking"
RANKING == "ranking"
GROWING == "growing"

\* ------------------------------------------------------------------- input
\* oasst_data.ExportMessageNode, the fields import_message reads.
ExportMessageNode(id, lang, synthetic, review_count, model_name, replies) ==
    [ message_id |-> id, lang |-> lang, synthetic |-> synthetic,
      review_count |-> review_count, model_name |-> model_name,
      replies |-> replies ]

\* A node with every optional field omitted.
PlainNode(id, replies) == ExportMessageNode(id, None, None, None, None, replies)

NoNode == PlainNode(0, <<>>)

\* One line of the input file: whether json.loads decodes it, the two keys
\* handle_json_line looks at, whether pydantic accepts the record, and the
\* parsed node (the prompt of a tree record, the message of a message record).
TreeLine(tree_id, prompt) ==
    [ decodes |-> TRUE, message_tree_id |-> Some(tree_id), message_id |-> None,
      valid |-> TRUE, node |-> prompt ]

MessageLine(node) ==
    [ decodes |-> TRUE, message_tree_id |-> None,
      message_id |-> Some(node.message_id), valid |-> TRUE, node |-> node ]

MalformedLine ==
    [ decodes |-> FALSE, message_tree_id |-> None, message_id |-> None,
      valid |-> FALSE, node |-> NoNode ]

\* A JSON object with neither key.
OtherLine ==
    [ decodes |-> TRUE, message_tree_id |-> None, message_id |-> None,
      valid |-> TRUE, node |-> NoNode ]

\* A record with a tree id that pydantic rejects (say, no prompt).
InvalidTreeLine ==
    [ decodes |-> TRUE, message_tree_id |-> Some(60), message_id |-> None,
      valid |-> FALSE, node |-> NoNode ]

\* A record with a message id that pydantic rejects (say, no role).
InvalidMessageLine ==
    [ decodes |-> TRUE, message_tree_id |-> None, message_id |-> Some(61),
      valid |-> FALSE, node |-> NoNode ]

\* The records the runs read.
Reply12 == PlainNode(12, <<>>)
Reply11 == ExportMessageNode(11, Some("de"), Some(FALSE), Some(2), Some("gpt"), <<Reply12>>)
Reply13 == ExportMessageNode(13, Some(""), Some(TRUE), Some(0), Some(""), <<>>)
Prompt10 == PlainNode(10, <<Reply11, Reply13>>)
Prompt20 == ExportMessageNode(20, Some("fr"), None, None, None, <<PlainNode(21, <<>>)>>)
Prompt30 == PlainNode(30, <<PlainNode(31, <<>>), PlainNode(11, <<>>)>>)
Message10 == PlainNode(10, <<>>)
Message50 == ExportMessageNode(50, None, Some(FALSE), None, Some("gpt"), <<PlainNode(51, <<>>)>>)

Tree10 == TreeLine(10, Prompt10)
Tree20 == TreeLine(20, Prompt20)
\* its second reply has the id of a reply of Tree10
Tree30 == TreeLine(30, Prompt30)
\* tree id differs from the id of its prompt
Tree40 == TreeLine(40, PlainNode(41, <<>>))

Lines ==
    { Tree10, Tree20, Tree30, Tree40, MessageLine(Message10), MessageLine(Message50),
      MalformedLine, OtherLine, InvalidTreeLine, InvalidMessageLine }

\* the --origin tag of the runs
Origin == "import.jsonl"

\* the --model_name values of the runs
ModelNames == { Some("base") }

\* ------------------------------------------------------------------- state
VARIABLES
    store,          \* committed tables: [messages, mts]
    db,             \* the session's view: messages, mts, failed, base, recounts
    txAborts,       \* whether a failed flush rolls the transaction back
    pc,             \* "idle" | "running" | "done" | "aborted" (the last run)
    num_activate,   \* import_file parameters
    max_count,
    dry_run,
    model_name,
    imported_count, \* import_tx local
    pos,            \* lines read so far, by all runs
    result,         \* what import_file returned, None while it has not
    line,           \* history: the line handled last
    caught,         \* history: the except clause that handled it, or "none"
    imported,       \* history: what it imported: "tree", "message" or "none"
    via,            \* history: ids imported through the message path, this run
    log,            \* history: the lines read by a recorded run
    replay,         \* the lines a replayed run still has to read
    dry,            \* history: outcome of the recorded dry run
    call            \* history: the last direct call of import_tree

vars ==
    << store, db, txAborts, pc, num_activate, max_count, dry_run, model_name,
       imported_count, pos, result, line, caught, imported, via, log,
       replay, dry, call >>

EmptyStore == [ messages |-> <<>>, mts |-> <<>> ]

\* ---------------------------------------------------------------- database
\* A session opened on committed content s.  `base` is what a rollback of
\* its transaction returns to; `aborts` says how the session takes a failed
\* flush: TRUE, the transaction is rolled back and the session refuses work
\* until it is rolled back by its owner; FALSE, only the statement is refused.
\* `recounts` is history: the ids update_children_counts was called with.
Session(s, aborts) ==
    [ messages |-> s.messages, mts |-> s.mts, failed |-> FALSE,
      base |-> s, aborts |-> aborts, recounts |-> <<>> ]

\* What a commit of the session writes.
Content(d) == [ messages |-> d.messages, mts |-> d.mts ]

\* Rows of table t whose column pk is key.
Rows(t, pk, key) == { i \in 1..Len(t) : t[i][pk] = key }

\* Query(...).one_or_none(): the session must be usable, and two rows raise.
one_or_none(d, t, pk, key) ==
    IF d.failed THEN [ exc |-> "PendingRollbackError", found |-> FALSE ]
    ELSE IF Cardinality(Rows(t, pk, key)) > 1
    THEN [ exc |-> "MultipleResultsFound", found |-> FALSE ]
    ELSE [ exc |-> "none", found |-> Rows(t, pk, key) # {} ]

\* The session after a flush has failed.
FlushFailed(d) ==
    IF d.aborts
    THEN [ d EXCEPT !.messages = d.base.messages, !.mts = d.base.mts, !.failed = TRUE ]
    ELSE d

\* Mutant: db.merge(msg), which overwrites the row that has the id.
add_message_merge(d, msg) ==
    IF d.failed THEN [ db |-> d, exc |-> "PendingRollbackError" ]
    ELSE IF Rows(d.messages, "id", msg.id) # {}
    THEN [ db |-> [ d EXCEPT !.messages =
                      [ i \in 1..Len(@) |-> IF @[i].id = msg.id THEN msg ELSE @[i] ] ],
           exc |-> "none" ]
    ELSE [ db |-> [ d EXCEPT !.messages = Append(@, msg) ], exc |-> "none" ]

\* db.add(msg); db.flush() for a message row: the primary key is `id`.
add_message(d, msg) ==
    IF d.failed THEN [ db |-> d, exc |-> "PendingRollbackError" ]
    ELSE IF Rows(d.messages, "id", msg.id) # {}
    THEN [ db |-> FlushFailed(d), exc |-> "IntegrityError" ]
    ELSE [ db |-> [ d EXCEPT !.messages = Append(@, msg) ], exc |-> "none" ]

\* db.add(mts); db.flush() for a tree state row: the primary key is the tree id.
add_mts(d, mts) ==
    IF d.failed THEN [ db |-> d, exc |-> "PendingRollbackError" ]
    ELSE IF Rows(d.mts, "message_tree_id", mts.message_tree_id) # {}
    THEN [ db |-> FlushFailed(d), exc |-> "IntegrityError" ]
    ELSE [ db |-> [ d EXCEPT !.mts = Append(@, mts) ], exc |-> "none" ]

\* PromptRepository.update_children_counts(message_tree_id): every message of
\* the tree gets the number of rows that name it as their parent.
update_children_counts(d, message_tree_id) ==
    [ d EXCEPT !.recounts = Append(@, message_tree_id), !.messages =
        [ i \in 1..Len(@) |->
            IF @[i].message_tree_id = message_tree_id
            THEN [ @[i] EXCEPT !.children_count =
                     Cardinality({ j \in 1..Len(d.messages) :
                                     d.messages[j].parent_id = Some(d.messages[i].id) }) ]
            ELSE @[i] ] ]

\* ---------------------------------------------------------------- Importer
\* Importer.__init__: the fields the import reads.
Importer(d, origin, fallback) == [ db |-> d, origin |-> origin, model_name |-> fallback ]

fetch_message(self, message_id) ==
    one_or_none(self.db, self.db.messages, "id", message_id)

\* Mutant: the lookup finds nothing.
fetch_message_tree_state_blind(self, message_tree_id) ==
    [ exc |-> IF self.db.failed THEN "PendingRollbackError" ELSE "none", found |-> FALSE ]

\* Mutant: the lookup reads the committed rows, not the session's.
fetch_message_tree_state_committed(self, message_tree_id) ==
    one_or_none(self.db, self.db.base.mts, "message_tree_id", message_tree_id)

fetch_message_tree_state(self, message_tree_id) ==
    one_or_none(self.db, self.db.mts, "message_tree_id", message_tree_id)

\* Mutant: `message.synthetic or True`, which turns an explicit False into True.
Message_synthetic_or_true(self, message, message_tree_id, parent_id) ==
    [ id |-> message.message_id,
      message_tree_id |-> message_tree_id,
      parent_id |-> parent_id,
      review_count |-> IF TruthyInt(message.review_count) THEN message.review_count[1] ELSE 0,
      lang |-> IF TruthyStr(message.lang) THEN message.lang[1] ELSE "en",
      synthetic |-> TRUE,
      model_name |-> IF TruthyStr(message.model_name) THEN message.model_name ELSE self.model_name,
      children_count |-> 0 ]

\* The Message row import_message builds.
Message(self, message, message_tree_id, parent_id) ==
    [ id |-> message.message_id,
      message_tree_id |-> message_tree_id,
      parent_id |-> parent_id,
      review_count |-> IF TruthyInt(message.review_count) THEN message.review_count[1] ELSE 0,
      lang |-> IF TruthyStr(message.lang) THEN message.lang[1] ELSE "en",
      synthetic |-> IF message.synthetic # None THEN message.synthetic[1] ELSE TRUE,
      model_name |-> IF TruthyStr(message.model_name) THEN message.model_name ELSE self.model_name,
      children_count |-> 0 ]

RECURSIVE import_message(_, _, _, _)
RECURSIVE import_replies(_, _, _, _)

\* Mutant: the recount is made for every node, not only for one without parent.
import_message_recounts_all(self, message, message_tree_id, parent_id) ==
    LET msg == Message(self, message, message_tree_id, parent_id)
        a == add_message(self.db, msg)
        counted == update_children_counts(a.db, msg.id)
    IN  IF a.exc # "none"
        THEN [ db |-> a.db, exc |-> a.exc, msg |-> msg ]
        ELSE [ import_replies([ self EXCEPT !.db = counted ], message.replies,
                              message_tree_id, msg.id)
                 EXCEPT !.msg = msg ]

\* Importer.import_message: insert the node, recount when it has no parent,
\* then insert its replies in order.  An exception ends it where it is raised.
\* The result is the session, the exception ("none" on return) and the row.
import_message(self, message, message_tree_id, parent_id) ==
    LET msg == Message(self, message, message_tree_id, parent_id)
        a == add_message(self.db, msg)
        counted == IF parent_id = None
                   THEN update_children_counts(a.db, msg.id)
                   ELSE a.db
    IN  IF a.exc # "none"
        THEN [ db |-> a.db, exc |-> a.exc, msg |-> msg ]
        ELSE [ import_replies([ self EXCEPT !.db = counted ], message.replies,
                              message_tree_id, msg.id)
                 EXCEPT !.msg = msg ]

\* Mutant: every reply is inserted with the root of the tree as its parent.
import_replies_under_root(self, replies, message_tree_id, parent_id) ==
    IF replies = <<>>
    THEN [ db |-> self.db, exc |-> "none", msg |-> NoNode ]
    ELSE LET r == import_message(self, Head(replies), message_tree_id,
                                 Some(message_tree_id))
         IN  IF r.exc # "none"
             THEN r
             ELSE import_replies([ self EXCEPT !.db = r.db ], Tail(replies),
                                 message_tree_id, parent_id)

\* The loop over message.replies.
import_replies(self, replies, message_tree_id, parent_id) ==
    IF replies = <<>>
    THEN [ db |-> self.db, exc |-> "none", msg |-> NoNode ]
    ELSE LET r == import_message(self, Head(replies), message_tree_id, Some(parent_id))
         IN  IF r.exc # "none"
             THEN r
             ELSE import_replies([ self EXCEPT !.db = r.db ], Tail(replies),
                                 message_tree_id, parent_id)

\* Mutant: every tree state is created active.
MessageTreeState_always_active(self, root_msg, state) ==
    [ message_tree_id |-> root_msg.id,
      goal_tree_size |-> 0,
      max_depth |-> 0,
      max_children_count |-> 0,
      state |-> state,
      origin |-> self.origin,
      active |-> TRUE,
      lang |-> IF root_msg.lang # "" THEN root_msg.lang ELSE "en" ]

\* The MessageTreeState row import_tree builds.
MessageTreeState(self, root_msg, state) ==
    [ message_tree_id |-> root_msg.id,
      goal_tree_size |-> 0,
      max_depth |-> 0,
      max_children_count |-> 0,
      state |-> state,
      origin |-> self.origin,
      active |-> (state = RANKING),
      lang |-> IF root_msg.lang # "" THEN root_msg.lang ELSE "en" ]

\* Importer.import_tree: tree is [message_tree_id (Optional), prompt].
import_tree(self, tree, state) ==
    IF tree.message_tree_id = None \/ tree.message_tree_id[1] # tree.prompt.message_id
    THEN [ db |-> self.db, exc |-> "ValueError" ]
    ELSE LET root == import_message(self, tree.prompt, tree.prompt.message_id, None)
             m == add_mts(root.db, MessageTreeState(self, root.msg, state))
         IN  IF root.exc # "none"
             THEN [ db |-> root.db, exc |-> root.exc ]
             ELSE IF state \notin { BACKLOG_RANKING, RANKING }
             THEN [ db |-> root.db, exc |-> "ValueError" ]
             ELSE [ db |-> m.db, exc |-> m.exc ]

\* ------------------------------------------------------- handle_json_line
\* pydantic.parse_obj_as(ExportMessageTree, dict_node) of a valid record.
ExportMessageTree(l) == [ message_tree_id |-> l.message_tree_id, prompt |-> l.node ]

\* What handle_json_line leaves: the session, the count, the except clause
\* that ended it ("none": it ran through), the exception raised, and what it
\* imported ("tree", "message" or "none").
Outcome(d, count, clause, e, what) ==
    [ db |-> d, imported_count |-> count, caught |-> clause, exc |-> e,
      imported |-> what ]

\* The tree branch after parsing: skip a tree whose state exists, else
\* import it, Ranking while the count is below the quota.  Every exception
\* ends in `except Exception`.
handle_tree(tree, importer, activate, count) ==
    LET existing_mts == fetch_message_tree_state(importer, tree.message_tree_id[1])
        state == IF count >= activate THEN BACKLOG_RANKING ELSE RANKING
        t == import_tree(importer, tree, state)
    IN  IF existing_mts.exc # "none"
        THEN Outcome(importer.db, count, "Exception", existing_mts.exc, "none")
        ELSE IF existing_mts.found
        THEN Outcome(importer.db, count, "none", "none", "none")
        ELSE IF t.exc # "none"
        THEN Outcome(t.db, count, "Exception", t.exc, "none")
        ELSE Outcome(t.db, count + 1, "none", "none", "tree")

\* Mutant: the count is incremented for a skipped message too.
handle_message_counts_skip(message, importer, count) ==
    LET existing_msg == fetch_message(importer, message.message_id)
        m == import_message(importer, message, message.message_id, None)
    IN  IF existing_msg.exc # "none"
        THEN Outcome(importer.db, count, "Exception", existing_msg.exc, "none")
        ELSE IF existing_msg.found
        THEN Outcome(importer.db, count + 1, "none", "none", "none")
        ELSE IF m.exc # "none"
        THEN Outcome(m.db, count, "Exception", m.exc, "none")
        ELSE Outcome(m.db, count + 1, "none", "none", "message")

\* The message branch after parsing: skip a message that exists, else insert
\* it as the root of its own tree.
handle_message(message, importer, count) ==
    LET existing_msg == fetch_message(importer, message.message_id)
        m == import_message(importer, message, message.message_id, None)
    IN  IF existing_msg.exc # "none"
        THEN Outcome(importer.db, count, "Exception", existing_msg.exc, "none")
        ELSE IF existing_msg.found
        THEN Outcome(importer.db, count, "none", "none", "none")
        ELSE IF m.exc # "none"
        THEN Outcome(m.db, count, "Exception", m.exc, "none")
        ELSE Outcome(m.db, count + 1, "none", "none", "message")

\* Mutant: no except clause for json.JSONDecodeError or its bases, so a line
\* that does not decode raises out of handle_json_line.
handle_json_line_raises(l, importer, activate, maximum, count) ==
    IF ~l.decodes
    THEN Outcome(importer.db, count, "none", "JSONDecodeError", "none")
    ELSE IF l.message_tree_id # None
    THEN IF ~l.valid
         THEN Outcome(importer.db, count, "ValidationError", "ValidationError", "none")
         ELSE handle_tree(ExportMessageTree(l), importer, activate, count)
    ELSE IF l.message_id # None
    THEN IF ~l.valid
         THEN Outcome(importer.db, count, "ValidationError", "ValidationError", "none")
         ELSE handle_message(l.node, importer, count)
    ELSE Outcome(importer.db, count, "none", "none", "none")

\* handle_json_line.  The max-count test inside the tree branch returns the
\* count the last line returns too, so `maximum` decides nothing here.  No
\* exception leaves it: each is caught by one of its three except clauses.
handle_json_line(l, importer, activate, maximum, count) ==
    IF ~l.decodes
    THEN Outcome(importer.db, count, "JSONDecodeError", "JSONDecodeError", "none")
    ELSE IF l.message_tree_id # None
    THEN IF ~l.valid
         THEN Outcome(importer.db, count, "ValidationError", "ValidationError", "none")
         ELSE handle_tree(ExportMessageTree(l), importer, activate, count)
    ELSE IF l.message_id # None
    THEN IF ~l.valid
         THEN Outcome(importer.db, count, "ValidationError", "ValidationError", "none")
         ELSE handle_message(l.node, importer, count)
    ELSE Outcome(importer.db, count, "none", "none", "none")

\* -------------------------------------------------------------- import_file
\* The values --max_count takes.
MaxCounts == { None } \cup { Some(n) : n \in 0..MaxCount }

\* `if max_count and imported_count >= max_count`
Reached(maximum, count) == TruthyInt(maximum) /\ count >= maximum[1]

\* No run has been recorded.
NotRecorded ==
    [ phase |-> "off", activate |-> 0, maximum |-> None, fallback |-> None,
      before |-> EmptyStore, result |-> None, content |-> EmptyStore ]

\* import_tree has not been called directly.
NoCall == [ tree |-> None, state |-> BACKLOG_RANKING, exc |-> "none" ]

Init ==
    /\ store = EmptyStore
    /\ txAborts \in BOOLEAN
    /\ db = Session(EmptyStore, txAborts)
    /\ pc = "idle"
    /\ num_activate = 0
    /\ max_count = None
    /\ dry_run = FALSE
    /\ model_name = None
    /\ imported_count = 0
    /\ pos = 0
    /\ result = None
    /\ line = None
    /\ caught = "none"
    /\ imported = "none"
    /\ via = {}
    /\ log = <<>>
    /\ replay = <<>>
    /\ dry = NotRecorded
    /\ call = NoCall

\* import_file is called: import_tx gets a fresh session and builds its
\* Importer; imported_count starts at 0.
Begin(activate, maximum, is_dry, fallback) ==
    /\ pc \in { "idle", "done", "aborted" }
    /\ num_activate' = activate
    /\ max_count' = maximum
    /\ dry_run' = is_dry
    /\ model_name' = fallback
    /\ db' = Session(store, txAborts)
    /\ pc' = "running"
    /\ imported_count' = 0
    /\ result' = None
    /\ line' = None
    /\ caught' = "none"
    /\ imported' = "none"
    /\ via' = {}
    /\ UNCHANGED << store, txAborts, pos, call >>

\* One turn of the loop of import_tx on line l: handle_json_line, then the
\* max-count test that leaves the loop (the guard of the next turn).  An
\* exception leaving handle_json_line would leave import_tx and import_file.
Turn(l) ==
    /\ pc = "running"
    /\ ~Reached(max_count, imported_count)
    /\ LET r == handle_json_line(l, Importer(db, Origin, model_name), num_activate,
                                 max_count, imported_count)
       IN  /\ db' = r.db
           /\ imported_count' = r.imported_count
           /\ caught' = r.caught
           /\ imported' = r.imported
           /\ via' = IF r.imported = "message" THEN via \cup { l.node.message_id } ELSE via
           /\ pc' = IF r.caught = "none" /\ r.exc # "none" THEN "aborted" ELSE "running"
    /\ pos' = pos + 1
    /\ line' = Some(l)
    /\ UNCHANGED << store, txAborts, num_activate, max_count, dry_run, model_name,
                    result, call >>

\* The loop of import_tx ends (end of file, or the max-count break) and
\* managed_tx_function finishes the transaction: a dry run rolls back, any
\* other run commits, and a commit on a failed session raises.  The session
\* is closed and the locals of import_file are gone.
Return ==
    /\ pc = "running"
    /\ IF dry_run
       THEN /\ store' = db.base
            /\ pc' = "done"
            /\ result' = Some(imported_count)
       ELSE IF db.failed
       THEN /\ store' = db.base
            /\ pc' = "aborted"
            /\ result' = None
       ELSE /\ store' = Content(db)
            /\ pc' = "done"
            /\ result' = Some(imported_count)
    /\ db' = Session(store', txAborts)
    /\ num_activate' = 0
    /\ max_count' = None
    /\ dry_run' = FALSE
    /\ model_name' = None
    /\ imported_count' = 0
    /\ line' = None
    /\ caught' = "none"
    /\ imported' = "none"
    /\ via' = {}
    /\ UNCHANGED << txAborts, pos, call >>

import_file ==
    /\ \E activate \in 0..MaxQuota, maximum \in MaxCounts, is_dry \in BOOLEAN,
          fallback \in ModelNames :
          Begin(activate, maximum, is_dry, fallback)
    /\ UNCHANGED << log, replay, dry >>

import_tx_line ==
    /\ pos < MaxLines
    /\ \E l \in Lines : Turn(l)
    /\ UNCHANGED << log, replay, dry >>

import_tx_return ==
    /\ Return
    /\ UNCHANGED << log, replay, dry >>

Next == import_file \/ import_tx_line \/ import_tx_return

Spec == Init /\ [][Next]_vars

\* ------------------------------------------- a dry run, then the same run
\* A second specification: import_file runs dry on a file, whose lines are
\* recorded, and then runs again on the same file with the same parameters
\* and dry_run off.

\* The committed content the recorded runs start from: nothing, or Tree10.
Seeds ==
    { EmptyStore,
      Content(import_tree(Importer(Session(EmptyStore, FALSE), Origin, Some("base")),
                          ExportMessageTree(Tree10), BACKLOG_RANKING).db) }

\* The lines the recorded runs read.
RecordedLines ==
    { Tree10, Tree20, Tree30, MessageLine(Message10), MessageLine(Message50),
      MalformedLine }

InitRecorded ==
    /\ store \in Seeds
    /\ txAborts \in BOOLEAN
    /\ db = Session(store, txAborts)
    /\ pc = "idle"
    /\ num_activate = 0
    /\ max_count = None
    /\ dry_run = FALSE
    /\ model_name = None
    /\ imported_count = 0
    /\ pos = 0
    /\ result = None
    /\ line = None
    /\ caught = "none"
    /\ imported = "none"
    /\ via = {}
    /\ log = <<>>
    /\ replay = <<>>
    /\ dry = NotRecorded
    /\ call = NoCall

dry_run_begin ==
    /\ dry.phase = "off"
    /\ \E activate \in 0..MaxQuota, maximum \in MaxCounts, fallback \in ModelNames :
          /\ Begin(activate, maximum, TRUE, fallback)
          /\ dry' = [ NotRecorded EXCEPT !.phase = "record", !.activate = activate,
                                         !.maximum = maximum, !.fallback = fallback,
                                         !.before = store ]
    /\ UNCHANGED << log, replay >>

dry_run_line ==
    /\ dry.phase = "record"
    /\ pos < MaxLines
    /\ \E l \in RecordedLines : Turn(l) /\ log' = Append(log, l)
    /\ UNCHANGED << replay, dry >>

dry_run_return ==
    /\ dry.phase = "record"
    /\ Return
    /\ dry' = [ dry EXCEPT !.phase = "recorded", !.result = result',
                           !.content = Content(db) ]
    /\ UNCHANGED << log, replay >>

rerun_begin ==
    /\ dry.phase = "recorded"
    /\ Begin(dry.activate, dry.maximum, FALSE, dry.fallback)
    /\ replay' = log
    /\ dry' = [ dry EXCEPT !.phase = "replay" ]
    /\ UNCHANGED log

rerun_line ==
    /\ dry.phase = "replay"
    /\ replay # <<>>
    /\ Turn(Head(replay))
    /\ replay' = Tail(replay)
    /\ UNCHANGED << log, dry >>

rerun_return ==
    /\ dry.phase = "replay"
    /\ replay = <<>> \/ Reached(max_count, imported_count)
    /\ Return
    /\ dry' = [ dry EXCEPT !.phase = "replayed" ]
    /\ UNCHANGED << log, replay >>

NextRecorded ==
    \/ dry_run_begin
    \/ dry_run_line
    \/ dry_run_return
    \/ rerun_begin
    \/ rerun_line
    \/ rerun_return

SpecRecorded == InitRecorded /\ [][NextRecorded]_vars

\* --------------------------------------------------- the fields of a row
\* A third specification: one run reads one record, a message or a tree
\* with one reply, whose optional fields take every combination of absent,
\* falsy and set.
FieldNodes(id, replies) ==
    { ExportMessageNode(id, lang, synthetic, review_count, name, replies) :
        lang \in { None, Some(""), Some("de") },
        synthetic \in { None, Some(TRUE), Some(FALSE) },
        review_count \in { None, Some(0), Some(2) },
        name \in { None, Some(""), Some("gpt") } }

FieldLines ==
    { MessageLine(n) : n \in FieldNodes(1, <<>>) }
    \cup { TreeLine(1, PlainNode(1, << n >>)) : n \in FieldNodes(2, <<>>) }

fields_begin ==
    /\ pc = "idle"
    /\ \E is_dry \in BOOLEAN, fallback \in { None, Some("base") } :
          Begin(1, None, is_dry, fallback)
    /\ UNCHANGED << log, replay, dry >>

fields_line ==
    /\ pos = 0
    /\ \E l \in FieldLines : Turn(l)
    /\ UNCHANGED << log, replay, dry >>

fields_return ==
    /\ Return
    /\ UNCHANGED << log, replay, dry >>

NextFields == fields_begin \/ fields_line \/ fields_return

SpecFields == Init /\ [][NextFields]_vars

\* ------------------------------------------- import_tree called directly
\* A fourth specification: a caller that holds a session calls
\* Importer.import_tree itself, with any State, on these trees.
TreeArgs ==
    { ExportMessageTree(l) : l \in { Tree10, Tree20, Tree30, Tree40 } }
    \cup { [ message_tree_id |-> None, prompt |-> PlainNode(70, <<>>) ] }

States == { BACKLOG_RANKING, RANKING, GROWING }

import_tree_call ==
    /\ pos < MaxLines
    /\ \E tree \in TreeArgs, state \in States :
          LET t == import_tree(Importer(db, Origin, Some("base")), tree, state)
          IN  /\ db' = t.db
              /\ call' = [ tree |-> Some(tree), state |-> state, exc |-> t.exc ]
    /\ pos' = pos + 1
    /\ UNCHANGED << store, txAborts, pc, num_activate, max_count, dry_run, model_name,
                    imported_count, result, line, caught, imported, via, log,
                    replay, dry >>

NextTree == import_tree_call

SpecTree == Init /\ [][NextTree]_vars

\* ------------------------------------------------------------- properties
\* l is a tree record (a message record) that pydantic accepts.
IsTree(l) == l.decodes /\ l.message_tree_id # None /\ l.valid
IsMessage(l) == l.decodes /\ l.message_tree_id = None /\ l.message_id # None /\ l.valid

\* The values of column pk in table t, and whether no two rows share one.
Keys(t, pk) == { t[i][pk] : i \in 1..Len(t) }
Unique(t, pk) == \A i, j \in 1..Len(t) : t[i][pk] = t[j][pk] => i = j

\* The rows this run has added to table t of its session.
Added(t) == { i \in 1..Len(db[t]) : i > Len(db.base[t]) }

\* C1: a tree record whose tree id differs from the id of its prompt aborts
\* the run: import_file returns no count and nothing of the run is persisted.
C1_MismatchAbortsRun ==
    /\ (line # None /\ IsTree(line[1])
          /\ line[1].message_tree_id[1] # line[1].node.message_id)
       => pc = "aborted"
    /\ pc = "aborted" => (result = None /\ store = db.base)

\* C2: the k-th tree this run imports is created Ranking (active) when
\* k <= num_activate and Backlog (inactive) otherwise, whatever else the run
\* has read.
C2_QuotaCountsTrees ==
    pc = "running" =>
        \A i \in Added("mts") :
            /\ db.mts[i].state =
                   IF i - Len(db.base.mts) <= num_activate THEN RANKING ELSE BACKLOG_RANKING
            /\ db.mts[i].active = (i - Len(db.base.mts) <= num_activate)

\* C3: a tree record whose TreeState an earlier run has committed is skipped:
\* the line changes neither the count nor the session, and the committed
\* tables never hold two TreeStates of one tree or two messages of one id.
C3_CommittedTreeSkipped ==
    /\ [](Unique(store.mts, "message_tree_id") /\ Unique(store.messages, "id"))
    /\ [][ ( /\ pc = "running"
             /\ pos' = pos + 1
             /\ IsTree(line'[1])
             /\ line'[1].message_tree_id[1] \in Keys(store.mts, "message_tree_id") )
           => ( /\ imported_count' = imported_count
                /\ imported' = "none"
                /\ db' = db ) ]_vars

\* A later run reads a tree that an earlier run has committed, and skips it.
C3_Witness ==
    /\ pc = "running"
    /\ line = Some(Tree10)
    /\ 10 \in Keys(store.mts, "message_tree_id")
    /\ Cardinality(Rows(store.messages, "id", 11)) = 1
    /\ caught = "none"
    /\ imported = "none"
    /\ imported_count = 0

\* C5: with a max count set, the count never passes it (exactly M records
\* are imported from a stream that holds M or more).
C5_CountWithinMax ==
    (pc = "running" /\ max_count # None) => imported_count <= max_count[1]

\* C8: the count is the number of TreeStates the run created plus the number
\* of messages it inserted through the message path; it never decreases from
\* one line to the next, and the count is what import_file returns.
C8_CountIsImports ==
    /\ []( (pc = "running" /\ ~db.failed) =>
             imported_count =
                 Cardinality(Added("mts"))
                 + Cardinality({ i \in Added("messages") :
                                   /\ db.messages[i].id \in via
                                   /\ db.messages[i].parent_id = None }) )
    /\ [][ (pc = "running" /\ pc' = "running") =>
             /\ imported_count' >= imported_count
             /\ imported' = "none" => imported_count' = imported_count ]_vars
    /\ [][ (pc = "running" /\ pc' = "done") => result' = Some(imported_count) ]_vars

\* A run returned 2 after importing a tree and a message and skipping a line.
C8_Witness ==
    /\ pc = "done"
    /\ result = Some(2)
    /\ pos = 3
    /\ Len(store.mts) = 1
    /\ 50 \in Keys(store.messages, "id")

\* C10: a tree (a message) that this run has inserted, committed or not, is
\* found by the existence check of a later line of the run: that line is
\* skipped and not counted, and the session never holds a record twice.
C10_SeesOwnInserts ==
    /\ [](Unique(db.mts, "message_tree_id") /\ Unique(db.messages, "id"))
    /\ [][ (pc = "running" /\ pos' = pos + 1) =>
            /\ ( /\ IsTree(line'[1])
                 /\ \E i \in Added("mts") :
                        db.mts[i].message_tree_id = line'[1].message_tree_id[1] )
               => (imported_count' = imported_count /\ caught' = "none" /\ db' = db)
            /\ ( /\ IsMessage(line'[1])
                 /\ \E i \in Added("messages") :
                        db.messages[i].id = line'[1].node.message_id )
               => (imported_count' = imported_count /\ caught' = "none" /\ db' = db) ]_vars

\* A dry run skips the second occurrence of a tree it has imported itself.
C10_Witness ==
    /\ pc = "running"
    /\ dry_run
    /\ line = Some(Tree10)
    /\ imported = "none"
    /\ caught = "none"
    /\ imported_count = 1
    /\ 10 \in Keys(db.mts, "message_tree_id")
    /\ 10 \notin Keys(store.mts, "message_tree_id")

\* C4: a dry run returns its count and leaves the committed tables as they
\* were, and the same run without dry_run then returns the same count and
\* commits what the dry run's session held.
C4_DryRunThenRun ==
    /\ dry.phase = "recorded" =>
           (pc = "done" /\ result = dry.result /\ store = dry.before)
    /\ dry.phase = "replayed" =>
           (pc = "done" /\ result = dry.result /\ store = dry.content)

\* C7: a run that reads a message record and a tree record of one id
\* completes, and leaves exactly one message of that id committed.
C7_OneMessagePerId ==
    (dry.phase = "replayed" /\ replay = <<>>) =>
        \A i, j \in 1..Len(log) :
            ( /\ IsMessage(log[i])
              /\ IsTree(log[j])
              /\ log[j].message_tree_id[1] = log[j].node.message_id
              /\ log[i].node.message_id = log[j].node.message_id )
            => ( /\ pc = "done"
                 /\ Cardinality(Rows(store.messages, "id", log[i].node.message_id)) = 1 )

RECURSIVE Nodes(_)
Nodes(n) == { n } \cup UNION { Nodes(n.replies[k]) : k \in 1..Len(n.replies) }

\* Row r is node n with the defaults of the data model substituted.
Defaulted(r, n) ==
    /\ r.id = n.message_id
    /\ n.lang = None => r.lang = "en"
    /\ (n.lang # None /\ n.lang[1] # "") => r.lang = n.lang[1]
    /\ r.synthetic = (n.synthetic # Some(FALSE))
    /\ n.review_count = None => r.review_count = 0
    /\ n.review_count # None => r.review_count = n.review_count[1]
    /\ n.model_name = None => r.model_name = model_name
    /\ (n.model_name # None /\ n.model_name[1] # "") => r.model_name = n.model_name
    /\ r.model_name \in { n.model_name, model_name }

\* C9: every row of an imported record has the id of its node and the
\* node's fields with the defaults substituted, and every node has its row.
C9_DefaultsSubstituted ==
    (pc = "running" /\ line # None /\ imported # "none") =>
        /\ \A i \in 1..Len(db.messages) :
              \E n \in Nodes(line[1].node) : Defaulted(db.messages[i], n)
        /\ \A n \in Nodes(line[1].node) :
              \E i \in 1..Len(db.messages) : Defaulted(db.messages[i], n)

\* A message that omits its language and sets synthetic to false is stored
\* with "en" and false, and the model name of the run.
C9_Witness ==
    /\ pc = "running"
    /\ line = Some(MessageLine(ExportMessageNode(1, None, Some(FALSE), None, None, <<>>)))
    /\ imported = "message"
    /\ Len(db.messages) = 1
    /\ db.messages[1].lang = "en"
    /\ db.messages[1].synthetic = FALSE
    /\ db.messages[1].review_count = 0
    /\ db.messages[1].model_name = Some("base")

\* C11: a tree record whose tree id is the id of a message this run inserted
\* through the message path is skipped as already present: import_tree is not
\* invoked, nothing is inserted and nothing is raised.
C11_TreeOfOwnMessageSkipped ==
    [][ ( /\ pc = "running"
          /\ pos' = pos + 1
          /\ IsTree(line'[1])
          /\ line'[1].message_tree_id[1] = line'[1].node.message_id
          /\ line'[1].message_tree_id[1] \in via
          /\ ~db.failed )
        => ( /\ caught' = "none"
             /\ imported' = "none"
             /\ imported_count' = imported_count
             /\ db' = db ) ]_vars

\* The nodes of a record in depth-first pre-order, replies in their input
\* order, each with the id of the node it is nested in and of the root.
RECURSIVE Preorder(_, _, _)
RECURSIVE PreorderAll(_, _, _)
Preorder(n, parent, tree) ==
    << [ id |-> n.message_id, parent_id |-> parent, message_tree_id |-> tree ] >>
    \o PreorderAll(n.replies, Some(n.message_id), tree)
PreorderAll(replies, parent, tree) ==
    IF replies = <<>> THEN <<>>
    ELSE Preorder(Head(replies), parent, tree) \o PreorderAll(Tail(replies), parent, tree)

\* In table t every row with a parent comes after the row of its parent, which
\* is of the same tree, and every row without one is the root of its tree.
ParentFirst(t) ==
    \A i \in 1..Len(t) :
        IF t[i].parent_id = None
        THEN t[i].message_tree_id = t[i].id
        ELSE \E j \in 1..(i - 1) :
                 /\ t[j].id = t[i].parent_id[1]
                 /\ t[j].message_tree_id = t[i].message_tree_id

\* C12: in the session and in the committed table a message with a parent id
\* follows its parent and carries its tree id, and the rows a line inserts are
\* the nodes of its record in pre-order (all of them, or those before the
\* insert that failed), each with the parent id of the node it is nested in.
C12_ParentBeforeChildren ==
    /\ [](ParentFirst(db.messages) /\ ParentFirst(store.messages))
    /\ [][ (pc = "running" /\ pos' = pos + 1 /\ ~db'.failed) =>
             LET old == Len(db.messages)
                 new == Len(db'.messages) - old
                 order == Preorder(line'[1].node, None, line'[1].node.message_id)
             IN  /\ new >= 0
                 /\ new <= Len(order)
                 /\ imported' # "none" => new = Len(order)
                 /\ \A k \in 1..new :
                       /\ db'.messages[old + k].id = order[k].id
                       /\ db'.messages[old + k].parent_id = order[k].parent_id
                       /\ db'.messages[old + k].message_tree_id = order[k].message_tree_id
                 /\ \A k \in 1..old : db'.messages[k].id = db.messages[k].id ]_vars

\* Tree 10 is committed: 10, its reply 11, the reply 12 of 11, its reply 13.
C12_Witness ==
    /\ pc = "done"
    /\ Len(store.messages) = 4
    /\ store.messages[1].id = 10 /\ store.messages[1].parent_id = None
    /\ store.messages[2].id = 11 /\ store.messages[2].parent_id = Some(10)
    /\ store.messages[3].id = 12 /\ store.messages[3].parent_id = Some(11)
    /\ store.messages[4].id = 13 /\ store.messages[4].parent_id = Some(10)
    /\ \A i \in 1..4 : store.messages[i].message_tree_id = 10

\* Every tree state of table mts is Backlog or Ranking, active exactly when
\* Ranking, has zero counters, and names a root row of table messages.
TreeStatesWellFormed(mts, messages) ==
    \A i \in 1..Len(mts) :
        /\ mts[i].state \in { BACKLOG_RANKING, RANKING }
        /\ mts[i].active = (mts[i].state = RANKING)
        /\ mts[i].goal_tree_size = 0
        /\ mts[i].max_depth = 0
        /\ mts[i].max_children_count = 0
        /\ \E j \in 1..Len(messages) :
              /\ messages[j].id = mts[i].message_tree_id
              /\ messages[j].parent_id = None

\* C13: every TreeState, in the session and committed, is Backlog or Ranking,
\* is active if and only if it is Ranking, has the id of its persisted root
\* message as tree id and has size, depth and breadth counters of zero.
C13_TreeStateShape ==
    /\ TreeStatesWellFormed(db.mts, db.messages)
    /\ TreeStatesWellFormed(store.mts, store.messages)

\* One run with quota 1 has committed tree 10, with its three replies, as
\* Ranking and active and tree 20 as Backlog and inactive.
C13_Witness ==
    /\ pc = "done"
    /\ Len(store.mts) = 2
    /\ store.mts[1].message_tree_id = 10
    /\ store.mts[1].state = RANKING /\ store.mts[1].active
    /\ store.mts[2].message_tree_id = 20
    /\ store.mts[2].state = BACKLOG_RANKING /\ ~store.mts[2].active
    /\ Cardinality({ j \in 1..Len(store.messages) :
                       store.messages[j].message_tree_id = 10 }) = 4
    /\ store.mts[1].goal_tree_size = 0 /\ store.mts[1].max_depth = 0
    /\ store.mts[1].max_children_count = 0

\* Table t2 holds every row of table t, unchanged and in its place.
Kept(t, t2) == Len(t2) >= Len(t) /\ \A i \in 1..Len(t) : t2[i] = t[i]

\* C14: with one run at a time, the committed tables never hold two
\* TreeStates of one tree id or two messages of one id, and no step of any
\* run changes or removes a committed TreeState or message.
C14_CommittedRowsKept ==
    /\ [](Unique(store.mts, "message_tree_id") /\ Unique(store.messages, "id"))
    /\ [][ Kept(store.mts, store'.mts) /\ Kept(store.messages, store'.messages) ]_vars

\* A later run has committed tree 20 behind the rows of tree 10, which an
\* earlier run had committed.
C14_Witness ==
    /\ pc = "done"
    /\ pos = 3
    /\ Len(store.mts) = 2
    /\ store.mts[1].message_tree_id = 10
    /\ store.mts[2].message_tree_id = 20
    /\ Len(store.messages) = 6
    /\ store.messages[1].id = 10
    /\ store.messages[5].id = 20
    /\ result = Some(1)

\* C15: a line makes at most one recount, for the id of the root of its
\* record and never for a reply; it makes it exactly when it has inserted that
\* root (a tree root or a standalone message), and an imported record has
\* made it.
C15_RecountOnlyForRoot ==
    [][ (pc = "running" /\ pos' = pos + 1) =>
          LET old == Len(db.recounts)
              calls == SubSeq(db'.recounts, old + 1, Len(db'.recounts))
              root == line'[1].node.message_id
              rows == Len(db.messages)
          IN  /\ Kept(db.recounts, db'.recounts)
              /\ calls \in { <<>>, << root >> }
              /\ imported' # "none" => calls = << root >>
              /\ ~db'.failed =>
                    ( calls = << root >>
                      <=> ( /\ Len(db'.messages) > rows
                            /\ db'.messages[rows + 1].id = root
                            /\ db'.messages[rows + 1].parent_id = None ) ) ]_vars

\* A run has imported tree 10, of four messages, and message 50, which has a
\* reply: two recounts, for 10 and for 50.
C15_Witness ==
    /\ pc = "running"
    /\ db.recounts = << 10, 50 >>
    /\ Len(db.messages) = 6
    /\ db.messages[2].parent_id = Some(10)
    /\ db.messages[6].parent_id = Some(50)
    /\ imported_count = 2

\* C16: for every max count that is set, 0 included, the count import_file
\* returns is at most the max count, and with max count 0 no line imports a
\* record.
C16_MaxCountZeroImportsNothing ==
    [][ (pc = "running" /\ max_count # None) =>
          /\ pc' = "done" => result'[1] <= max_count[1]
          /\ (max_count = Some(0) /\ pos' = pos + 1) =>
                (imported' = "none" /\ Content(db') = Content(db)) ]_vars

\* C17: a line that ends in an except clause leaves the tables of the session
\* as they were before it, so the session never holds a root inserted
\* through the tree path without its TreeState.
C17_FailedLineLeavesNoRows ==
    /\ [][ (pc = "running" /\ pos' = pos + 1 /\ caught' # "none")
           => Content(db') = Content(db) ]_vars
    /\ []( pc = "running" =>
             \A i \in Added("messages") :
                 (db.messages[i].parent_id = None /\ db.messages[i].id \notin via)
                 => db.messages[i].id \in Keys(db.mts, "message_tree_id") )

\* C18: whenever import_tree rejects its input with ValueError, for a missing
\* or mismatched tree id or for a state other than Backlog and Ranking, it
\* has added no message and no TreeState to the session.
C18_RejectsBeforeInsert ==
    [][ (pos' = pos + 1 /\ call'.exc = "ValueError")
        => Content(db') = Content(db) ]_vars

\* C19: when a line has imported a tree or a standalone message, the child
\* count recorded for its root is the number of rows whose parent is the root.
C19_RootChildCount ==
    (pc = "running" /\ line # None /\ imported # "none") =>
        \A i \in 1..Len(db.messages) :
            db.messages[i].id = line[1].node.message_id
            => db.messages[i].children_count =
                   Cardinality({ j \in 1..Len(db.messages) :
                                   db.messages[j].parent_id = Some(db.messages[i].id) })

====
